---- MODULE Spec2Model ----
(***************************************************************************)
(* The perception-to-actuation frame loop of simulation/main.py and the    *)
(* stage functions it calls.  The model starts at the entry of main(): the *)
(* module-level initialisation (serial port, MiDaS model, visualizer) is   *)
(* taken as done.                                                          *)
(*                                                                         *)
(* Numbers.  Depth values are rationals val/den over a per-map common      *)
(* denominator den; den = 0 stands for NaN (the 0/0 of the normalisation   *)
(* of a constant map).  Centroid components and sector readings are exact  *)
(* rationals [num, den].  Depth maps are single-row arrays of shape        *)
(* (1, w); the stage functions read the shape from the array.  The         *)
(* arithmetic is exact; readings handed to trigger_haptic_feedback on its  *)
(* own are multiples of 1/2, on which the float arithmetic is exact too.   *)
(***************************************************************************)
EXTENDS Integers, Sequences, FiniteSets, TLC

VARIABLES pc, frame, depth_map, ground_mask, obstacles, sectors,
          hi, motor, written, key, exc, out

vars == <<pc, frame, depth_map, ground_mask, obstacles, sectors,
          hi, motor, written, key, exc, out>>

(***************************** configuration *******************************)
FRAME_WIDTH == 640
FOCAL_LENGTH == 525
\* GROUND_HEIGHT_THRESHOLD = 1.2, in tenths of a metre
GROUND_HEIGHT_THRESHOLD_TENTHS == 12
\* the 0.1 tolerance of estimate_ground_plane, in tenths of a metre
GROUND_TOLERANCE_TENTHS == 1
WARNING_DISTANCE == 2
\* DBSCAN(eps=10, min_samples=20)
Eps == 10
MinSamples == 20

(******************************* bounds ************************************)
\* width of the depth maps (columns of the single row)
MaxCols == 41
\* obstacles in a sequence handed to map_obstacles_to_sectors on its own
MaxObs == 2
\* centroid depths 0 .. MaxDepth of those obstacles
MaxDepth == 2
\* sector readings 0, 1/2, ..., MaxHalves/2 handed to trigger_haptic_feedback
MaxHalves == 5

(****************************** arithmetic *********************************)
Abs(x) == IF x < 0 THEN -x ELSE x

Rat(n, d) == [num |-> n, den |-> d]

\* a < b for rationals with positive denominators
RatLt(a, b) == a.num * b.den < b.num * a.den

RatEq(a, b) == a.num * b.den = b.num * a.den

RECURSIVE SeqSum(_)
SeqSum(s) == IF s = <<>> THEN 0 ELSE Head(s) + SeqSum(Tail(s))

(************************ depth_estimation/midas.py ************************)
Cols(dm) == 0 .. (dm.w - 1)

SetMin(S) == CHOOSE x \in S : \A y \in S : x <= y
SetMax(S) == CHOOSE x \in S : \A y \in S : x >= y

\* Lines 27-30: (depth - depth.min()) / (depth.max() - depth.min()).
\* A constant raw map gives 0/0 = NaN in every pixel (den = 0).
Normalize(raw, w) ==
    LET lo == SetMin({raw[u] : u \in 0 .. (w - 1)})
        hi_ == SetMax({raw[u] : u \in 0 .. (w - 1)})
    IN  [w |-> w, den |-> hi_ - lo, val |-> [u \in 0 .. (w - 1) |-> raw[u] - lo]]

\* What the network returns for a frame is opaque: a step profile of raw
\* depths a (left of column s) and b (from column s on).
RawMaps(w, splits) ==
    { [u \in 0 .. (w - 1) |-> IF u < s THEN a ELSE b] :
        s \in splits, a \in 0 .. 1, b \in 0 .. 1 }

(******************** obstacle_detection/ground_plane.py *******************)
\* Pixel (u, v) of an array of shape (height, width) with depth z = zn/den:
\*   y = (v - height/2) * z / FOCAL_LENGTH
\*   heights = -y - GROUND_HEIGHT_THRESHOLD ;  ground iff |heights| < 0.1
\* scaled by 10 * 2 * den * FOCAL_LENGTH.  A NaN depth compares False.
IsGroundPixel(v, height, zn, den) ==
    LET D == 2 * den * FOCAL_LENGTH
        A == -((2 * v - height) * zn * 10) - GROUND_HEIGHT_THRESHOLD_TENTHS * D
    IN  /\ den # 0
        /\ Abs(A) < GROUND_TOLERANCE_TENTHS * D

\* For a normalised depth (0 <= z <= 1) |y| stays below 1/2, so heights lies
\* near -1.2 and no pixel of an estimator output is classified as ground.
estimate_ground_plane(dm) ==
    [u \in Cols(dm) |-> IsGroundPixel(0, 1, dm.val[u], dm.den)]

(******************** obstacle_detection/segmentation.py *******************)
\* Lines 7-11: the (u, v, z) points of the non-ground pixels, in the
\* row-major order of np.where.
RECURSIVE PointsFrom(_, _, _)
PointsFrom(dm, mask, u) ==
    IF u >= dm.w THEN <<>>
    ELSE (IF mask[u] THEN <<>> ELSE << <<u, 0, dm.val[u]>> >>)
         \o PointsFrom(dm, mask, u + 1)

NonGroundPoints(dm, mask) == PointsFrom(dm, mask, 0)

\* Euclidean distance of two points <= eps, z being zn/den:
\*   du^2 + dv^2 + (dzn/den)^2 <= eps^2
Neighbors(p, q, den) ==
    LET du == p[1] - q[1]
        dv == p[2] - q[2]
        dz == p[3] - q[3]
    IN  den * den * (du * du + dv * dv) + dz * dz <= Eps * Eps * den * den

\* len(neighborhoods[i]): the points within eps of point i, itself included
NeighborCount(points, den, i) ==
    Cardinality({j \in DOMAIN points : Neighbors(points[i], points[j], den)})

\* mutant: the core test off by one
CoreSamples_OffByOne(points, den) ==
    {i \in DOMAIN points : NeighborCount(points, den, i) >= MinSamples - 1}

\* core_samples: the points with at least min_samples neighbours
CoreSamples(points, den) ==
    {i \in DOMAIN points : NeighborCount(points, den, i) >= MinSamples}

\* The depth-first expansion of one seed: every still unlabelled point
\* reached from the seed through core points.
RECURSIVE Expand(_, _, _, _, _)
Expand(cluster, unlabelled, points, den, core) ==
    LET more == {j \in unlabelled \ cluster :
                    \E c \in cluster \cap core :
                        Neighbors(points[c], points[j], den)}
    IN  IF more = {} THEN cluster
        ELSE Expand(cluster \cup more, unlabelled, points, den, core)

\* dbscan_inner: seeds in index order; a seed is an unlabelled core point;
\* labels are 0, 1, ... in the order the clusters are opened, noise is -1.
RECURSIVE DbscanInner(_, _, _, _, _, _)
DbscanInner(i, points, den, labels, label_num, core) ==
    IF i > Len(points) THEN labels
    ELSE IF labels[i] # -1 \/ i \notin core
         THEN DbscanInner(i + 1, points, den, labels, label_num, core)
         ELSE LET unl == {j \in DOMAIN points : labels[j] = -1}
                  cl  == Expand({i}, unl, points, den, core)
                  lab == [j \in DOMAIN points |->
                             IF j \in cl THEN label_num ELSE labels[j]]
              IN  DbscanInner(i + 1, points, den, lab, label_num + 1, core)

DbscanLabels(points, den) ==
    LET core == CoreSamples(points, den)
        noise == [j \in DOMAIN points |-> -1]
    IN  IF Cardinality(core) = 0 THEN noise
        ELSE DbscanInner(1, points, den, noise, 0, core)

\* DBSCAN.fit validates its input first: an array with no samples, or one
\* that holds NaN, raises ValueError.
DbscanRaises(points, den) == points = <<>> \/ den = 0

SelectIdx(points, labels, label) ==
    SelectSeq([i \in DOMAIN points |-> <<i, points[i]>>],
              LAMBDA e : labels[e[1]] = label)

\* Lines 18-21: one obstacle per label, centroid = mean over the cluster.
Obstacle(points, labels, label, den) ==
    LET sel == SelectIdx(points, labels, label)
        cp  == [k \in DOMAIN sel |-> sel[k][2]]
        n   == Len(cp)
    IN  [centroid |-> << Rat(SeqSum([k \in DOMAIN cp |-> cp[k][1]]), n),
                         Rat(SeqSum([k \in DOMAIN cp |-> cp[k][2]]), n),
                         Rat(SeqSum([k \in DOMAIN cp |-> cp[k][3]]), n * den) >>,
         points |-> cp]

segment_obstacles(dm, mask) ==
    LET points == NonGroundPoints(dm, mask)
        labels == DbscanLabels(points, dm.den)
        unique_labels == {labels[i] : i \in DOMAIN labels} \ {-1}
    IN  [l \in 1 .. Cardinality(unique_labels) |->
            Obstacle(points, labels, l - 1, dm.den)]

segment_raises(dm, mask) == DbscanRaises(NonGroundPoints(dm, mask), dm.den)

(************************* camera/utils/helpers.py *************************)
\* The arguments of arctan2(u - FRAME_WIDTH / 2, FOCAL_LENGTH) as the
\* tangent tn/td (td > 0) of the angle, u being the rational centroid column.
Tangent(u) ==
    [tn |-> 2 * u.num - FRAME_WIDTH * u.den, td |-> 2 * u.den * FOCAL_LENGTH]

\* a/b >= sqrt(3) for integers a >= 0, b > 0, exactly and without squaring
\* (the squares leave the 32-bit integers): for 1 <= a/b < 2 and r = a - b,
\*   a/b >= sqrt(3)  <=>  r/b >= sqrt(3) - 1  <=>  (2b - r)/r <= sqrt(3),
\* and a rational never equals sqrt(3).  The denominator shrinks each step.
RECURSIVE GeSqrt3(_, _)
GeSqrt3(a, b) ==
    IF a >= 2 * b THEN TRUE
    ELSE IF a <= b THEN FALSE
    ELSE ~GeSqrt3(2 * b - (a - b), a - b)

\* t <= tan(15 deg) = 2 - sqrt(3), exactly:  2 - t >= sqrt(3)
LeTan15(tn, td) ==
    \/ tn <= 0
    \/ /\ 2 * td - tn >= 0
       /\ GeSqrt3(2 * td - tn, td)

\* angle <= deg and angle < deg for the four band edges; arctan is monotone,
\* tan(45 deg) = 1 and tan(15 deg) is irrational, so never met by tn/td.
AngleLe(t, deg) ==
    CASE deg = 45  -> t.tn <= t.td
      [] deg = 15  -> LeTan15(t.tn, t.td)
      [] deg = -15 -> ~LeTan15(-t.tn, t.td)
      [] deg = -45 -> t.tn <= -t.td

AngleLt(t, deg) ==
    CASE deg = 45  -> t.tn < t.td
      [] deg = 15  -> LeTan15(t.tn, t.td)
      [] deg = -15 -> ~LeTan15(-t.tn, t.td)
      [] deg = -45 -> t.tn < -t.td

\* mutant: the upper edge of NE exclusive
SectorOf_OpenNE(angle) ==
    IF ~AngleLt(angle, -15) /\ AngleLe(angle, 15) THEN "N"
    ELSE IF ~AngleLe(angle, 15) /\ AngleLt(angle, 45) THEN "NE"
    ELSE IF ~AngleLt(angle, -45) /\ AngleLt(angle, -15) THEN "NW"
    ELSE "none"

\* Lines 11-16: the if / elif chain that picks the list z is appended to.
SectorOf(angle) ==
    IF ~AngleLt(angle, -15) /\ AngleLe(angle, 15) THEN "N"
    ELSE IF ~AngleLe(angle, 15) /\ AngleLe(angle, 45) THEN "NE"
    ELSE IF ~AngleLt(angle, -45) /\ AngleLt(angle, -15) THEN "NW"
    ELSE "none"

\* Lines 6-16: the three lists after the loop over the obstacles.
RECURSIVE SectorLists(_, _)
SectorLists(obs, lists) ==
    IF obs = <<>> THEN lists
    ELSE LET c == Head(obs).centroid
             s == SectorOf(Tangent(c[1]))
         IN  SectorLists(Tail(obs),
                 IF s = "none" THEN lists
                 ELSE [lists EXCEPT ![s] = Append(@, c[3])])

\* Python's min over a non-empty list: the first smallest element.
RECURSIVE ListMin(_)
ListMin(l) ==
    IF Len(l) = 1 THEN l[1]
    ELSE LET m == ListMin(Tail(l))
         IN  IF RatLt(m, l[1]) THEN m ELSE l[1]

None == [none |-> TRUE, num |-> 0, den |-> 1]
Some(r) == [none |-> FALSE, num |-> r.num, den |-> r.den]

\* Line 19: min(distances) if distances else None, for every sector.
Closest(distances) == IF distances = <<>> THEN None ELSE Some(ListMin(distances))

map_obstacles_to_sectors(obs) ==
    LET lists == SectorLists(obs, [N |-> <<>>, NE |-> <<>>, NW |-> <<>>])
    IN  [N |-> Closest(lists.N), NE |-> Closest(lists.NE), NW |-> Closest(lists.NW)]

(********************** haptic_feedback/belt_control.py ********************)
motor_map == [N |-> 0, NE |-> 1, NW |-> 2]

\* sectors.items(): the dict keeps its insertion order
SectorOrder == <<"N", "NE", "NW">>

\* Line 10: "distance and distance < WARNING_DISTANCE"; None and 0 are falsy.
Truthy(d) == ~d.none /\ d.num # 0

BelowWarning(d) == d.num < WARNING_DISTANCE * d.den

\* mutant: the warning distance itself still triggers a write
ShouldWrite_AtWarning(d) == Truthy(d) /\ d.num <= WARNING_DISTANCE * d.den

ShouldWrite(d) == Truthy(d) /\ BelowWarning(d)

\* int(): truncation toward zero
Trunc(n, d) == IF n >= 0 THEN n \div d ELSE -((-n) \div d)

Clamp(x) == IF x < 0 THEN 0 ELSE IF x > 255 THEN 255 ELSE x

\* n/d rounded to the nearest integer (halves up), n >= 0
RoundNearest(n, d) == (2 * n + d) \div (2 * d)

\* mutant: round() in place of int()
Intensity_Rounded(d) ==
    Clamp(RoundNearest(255 * (WARNING_DISTANCE * d.den - d.num), WARNING_DISTANCE * d.den))

\* Lines 13-14: int(255 * (1 - distance / WARNING_DISTANCE)), clamped
Intensity(d) ==
    Clamp(Trunc(255 * (WARNING_DISTANCE * d.den - d.num), WARNING_DISTANCE * d.den))

(******************************* main.py ***********************************)
NoMap == [w |-> 0, den |-> 1, val |-> <<>>]
NoReading == [N |-> None, NE |-> None, NW |-> None]

InLoop == {"capture", "estimate", "ground", "segment", "map", "haptic",
           "visualize", "waitkey"}

Init ==
    /\ pc = "capture"
    /\ frame = "none"
    /\ depth_map = NoMap
    /\ ground_mask = <<>>
    /\ obstacles = <<>>
    /\ sectors = NoReading
    /\ hi = 0
    /\ motor = [m \in 0 .. 2 |-> -1]
    /\ written = <<>>
    /\ key = ""
    /\ exc = "none"
    /\ out = <<>>

\* capture_frame returns a frame (cap.read() gave ret = True)
Capture ==
    /\ pc = "capture" /\ exc = "none"
    /\ frame' = "frame"
    /\ written' = <<>>
    /\ pc' = "estimate"
    /\ UNCHANGED <<depth_map, ground_mask, obstacles, sectors, hi, motor, key, exc, out>>

\* capture.py lines 11-12: ret is False, Exception is raised; main has no
\* handler, the exception leaves the loop
CaptureFail ==
    /\ pc = "capture" /\ exc = "none"
    /\ frame' = "none"
    /\ written' = <<>>
    /\ exc' = "Exception"
    /\ UNCHANGED <<pc, depth_map, ground_mask, obstacles, sectors, hi, motor, key, out>>

EstimateDepth ==
    /\ pc = "estimate" /\ exc = "none"
    /\ \E raw \in RawMaps(MaxCols, 0 .. MaxCols) :
           depth_map' = Normalize(raw, MaxCols)
    /\ pc' = "ground"
    /\ UNCHANGED <<frame, ground_mask, obstacles, sectors, hi, motor, written, key, exc, out>>

EstimateGround ==
    /\ pc = "ground" /\ exc = "none"
    /\ ground_mask' = estimate_ground_plane(depth_map)
    /\ pc' = "segment"
    /\ UNCHANGED <<frame, depth_map, obstacles, sectors, hi, motor, written, key, exc, out>>

SegmentReturn ==
    /\ pc = "segment" /\ exc = "none"
    /\ ~segment_raises(depth_map, ground_mask)
    /\ obstacles' = segment_obstacles(depth_map, ground_mask)
    /\ pc' = "map"
    /\ UNCHANGED <<frame, depth_map, ground_mask, sectors, hi, motor, written, key, exc, out>>

\* DBSCAN.fit raises; neither segment_obstacles nor main catches it
SegmentRaise ==
    /\ pc = "segment" /\ exc = "none"
    /\ segment_raises(depth_map, ground_mask)
    /\ exc' = "ValueError"
    /\ UNCHANGED <<pc, frame, depth_map, ground_mask, obstacles, sectors, hi, motor, written, key, out>>

MapSectors ==
    /\ pc = "map" /\ exc = "none"
    /\ sectors' = map_obstacles_to_sectors(obstacles)
    /\ hi' = 1
    /\ pc' = "haptic"
    /\ UNCHANGED <<frame, depth_map, ground_mask, obstacles, motor, written, key, exc, out>>

AfterItem == IF hi = Len(SectorOrder) THEN "visualize" ELSE "haptic"

\* one iteration of the for loop of trigger_haptic_feedback, the write done
HapticStep ==
    /\ pc = "haptic" /\ exc = "none"
    /\ LET sector == SectorOrder[hi]
           distance == sectors[sector]
       IN  IF ShouldWrite(distance)
           THEN /\ written' = Append(written, <<motor_map[sector], Intensity(distance)>>)
                /\ motor' = [motor EXCEPT ![motor_map[sector]] = Intensity(distance)]
           ELSE UNCHANGED <<written, motor>>
    /\ hi' = hi + 1
    /\ pc' = AfterItem
    /\ UNCHANGED <<frame, depth_map, ground_mask, obstacles, sectors, key, exc, out>>

\* the same iteration, ser.write raising (serial.SerialException)
HapticWriteFail ==
    /\ pc = "haptic" /\ exc = "none"
    /\ ShouldWrite(sectors[SectorOrder[hi]])
    /\ exc' = "SerialException"
    /\ UNCHANGED <<pc, frame, depth_map, ground_mask, obstacles, sectors, hi, motor, written, key, out>>

\* config.SIMULATION_ENABLED is True: update_simulation(obstacles) redraws
\* the scene, which the pipeline never reads
Visualize ==
    /\ pc = "visualize" /\ exc = "none"
    /\ pc' = "waitkey"
    /\ UNCHANGED <<frame, depth_map, ground_mask, obstacles, sectors, hi, motor, written, key, exc, out>>

\* lines 25-26: cv2.waitKey(1) & 0xFF == ord('q') breaks the loop and main
\* returns; any other key starts the next iteration
WaitKey ==
    /\ pc = "waitkey" /\ exc = "none"
    /\ \E k \in {"q", "other"} :
          /\ key' = k
          /\ pc' = IF k = "q" THEN "exit" ELSE "capture"
    /\ UNCHANGED <<frame, depth_map, ground_mask, obstacles, sectors, hi, motor, written, exc, out>>

\* SIGINT: KeyboardInterrupt is raised wherever the loop is
Interrupt ==
    /\ pc \in InLoop /\ exc = "none"
    /\ exc' = "KeyboardInterrupt"
    /\ UNCHANGED <<pc, frame, depth_map, ground_mask, obstacles, sectors, hi, motor, written, key, out>>

\* lines 29-34: the handlers around main(); the process ends after either
Handler ==
    /\ pc \in InLoop /\ exc # "none"
    /\ out' = Append(out, IF exc = "KeyboardInterrupt"
                           THEN "Shutting down..." ELSE "Error")
    /\ pc' = "exit"
    /\ UNCHANGED <<frame, depth_map, ground_mask, obstacles, sectors, hi, motor, written, key, exc>>

Next ==
    \/ Capture \/ CaptureFail \/ EstimateDepth \/ EstimateGround
    \/ SegmentReturn \/ SegmentRaise \/ MapSectors
    \/ HapticStep \/ HapticWriteFail \/ Visualize \/ WaitKey
    \/ Interrupt \/ Handler

Spec == Init /\ [][Next]_vars

(*********************** segment_obstacles on its own **********************)
\* flat maps z = c (not an estimator output: a constant map normalises to NaN)
FlatMap(w, c) == [w |-> w, den |-> 1, val |-> [u \in 0 .. (w - 1) |-> c]]

SegDepthMaps ==
    {FlatMap(MaxCols, 0), FlatMap(MaxCols, 1)}
    \cup {Normalize(r, MaxCols) : r \in RawMaps(MaxCols, {MaxCols \div 2})}

\* ground masks: a non-ground prefix, or everything non-ground but two holes
SegMasks ==
    { [u \in 0 .. (MaxCols - 1) |-> u >= c] : c \in 0 .. MaxCols }
    \cup { [u \in 0 .. (MaxCols - 1) |-> u = h1 \/ u = h2] :
             h1 \in 0 .. (MaxCols - 1), h2 \in 0 .. (MaxCols - 1) }

InitSegment ==
    /\ pc = "segment"
    /\ frame = "frame"
    /\ depth_map \in SegDepthMaps
    /\ ground_mask \in SegMasks
    /\ obstacles = <<>>
    /\ sectors = NoReading
    /\ hi = 0
    /\ motor = [m \in 0 .. 2 |-> -1]
    /\ written = <<>>
    /\ key = ""
    /\ exc = "none"
    /\ out = <<>>

NextSegment == SegmentReturn \/ SegmentRaise

SpecSegment == InitSegment /\ [][NextSegment]_vars

(******************* map_obstacles_to_sectors on its own *******************)
\* centroid columns next to the band edges: 525 * tan(15 deg) = 140.67...,
\* 525 * tan(45 deg) = 525
EdgeOffsets == {-526, -525, -141, -140, 0, 140, 141, 525, 526}

SampleObstacles ==
    { [centroid |-> << Rat(FRAME_WIDTH \div 2 + d, 1), Rat(0, 1), Rat(z, 1) >>,
       points |-> << <<FRAME_WIDTH \div 2 + d, 0, z>> >>] :
        d \in EdgeOffsets, z \in 0 .. MaxDepth }

RECURSIVE SeqsUpTo(_, _)
SeqsUpTo(S, n) ==
    IF n = 0 THEN {<<>>}
    ELSE LET shorter == SeqsUpTo(S, n - 1)
         IN  shorter \cup {Append(q, x) : q \in shorter, x \in S}

InitSectors ==
    /\ pc = "map"
    /\ frame = "frame"
    /\ depth_map = NoMap
    /\ ground_mask = <<>>
    /\ obstacles \in SeqsUpTo(SampleObstacles, MaxObs)
    /\ sectors = NoReading
    /\ hi = 0
    /\ motor = [m \in 0 .. 2 |-> -1]
    /\ written = <<>>
    /\ key = ""
    /\ exc = "none"
    /\ out = <<>>

NextSectors == MapSectors

SpecSectors == InitSectors /\ [][NextSectors]_vars

(******************* trigger_haptic_feedback on its own ********************)
HapticDistances == {None} \cup {Some(Rat(k, 2)) : k \in 0 .. MaxHalves}

HapticReadings == [{"N", "NE", "NW"} -> HapticDistances]

InitHaptic ==
    /\ pc = "haptic"
    /\ frame = "frame"
    /\ depth_map = NoMap
    /\ ground_mask = <<>>
    /\ obstacles = <<>>
    /\ sectors \in HapticReadings
    /\ hi = 1
    /\ motor = [m \in 0 .. 2 |-> -1]
    /\ written = <<>>
    /\ key = ""
    /\ exc = "none"
    /\ out = <<>>

\* the next frame's reading, once the loop over the sectors has returned
NextReading ==
    /\ pc = "visualize" /\ exc = "none"
    /\ sectors' \in HapticReadings
    /\ hi' = 1
    /\ written' = <<>>
    /\ pc' = "haptic"
    /\ UNCHANGED <<frame, depth_map, ground_mask, obstacles, motor, key, exc, out>>

NextHaptic == HapticStep \/ HapticWriteFail \/ NextReading

SpecHaptic == InitHaptic /\ [][NextHaptic]_vars

(********************************* claims **********************************)
Range(q) == {q[i] : i \in DOMAIN q}

AllGround(mask) == DOMAIN mask # {} /\ \A u \in DOMAIN mask : mask[u]

\* C1: with every pixel classified as ground, segment_obstacles returns an
\* empty obstacle sequence and raises nothing.
C1_AllGroundReturnsEmpty ==
    AllGround(ground_mask) => (exc = "none" /\ obstacles = <<>>)

InputPoints == Range(NonGroundPoints(depth_map, ground_mask))

IsCorePoint(p) ==
    Cardinality({q \in InputPoints : Neighbors(p, q, depth_map.den)}) >= MinSamples

\* C2 (as claimed): every obstacle returned by segment_obstacles holds at
\* least minSamples points.
C2_EveryClusterHasMinSamples ==
    \A k \in DOMAIN obstacles : Len(obstacles[k].points) >= MinSamples

\* C2 (amended): every obstacle returned by segment_obstacles holds at least
\* one core point, a point with at least minSamples points of the non-ground
\* set within eps of it (itself included).
C2_EveryClusterHasCorePoint ==
    \A k \in DOMAIN obstacles :
        \E p \in Range(obstacles[k].points) : IsCorePoint(p)

\* C2 witness: two clusters, a point of the first within eps of a core
\* point of the second, and the second short of minSamples points.
C2_SharedBorderPoint ==
    /\ pc = "map"
    /\ Len(obstacles) = 2
    /\ \E b \in Range(obstacles[1].points), c \in Range(obstacles[2].points) :
           IsCorePoint(c) /\ Neighbors(b, c, depth_map.den)
    /\ Len(obstacles[2].points) < MinSamples

\* The bands in centroid columns, for an integer column u:
\* |u - 320| <= 140 is [-15, 15], 141 .. 525 to the right is (15, 45],
\* 141 .. 525 to the left is [-45, -15).
BandOfColumn(u) ==
    LET d == u - FRAME_WIDTH \div 2
    IN  IF -140 <= d /\ d <= 140 THEN "N"
        ELSE IF 141 <= d /\ d <= 525 THEN "NE"
        ELSE IF -525 <= d /\ d <= -141 THEN "NW"
        ELSE "none"

DepthsIn(s) ==
    {obstacles[k].centroid[3] : k \in
        {j \in DOMAIN obstacles : BandOfColumn(obstacles[j].centroid[1].num) = s}}

\* C3: map_obstacles_to_sectors returns exactly the keys N, NE, NW; each
\* value is the minimum centroid depth of the obstacles whose angle lies in
\* the sector's band, and None when there is none.
C3_SectorMinimum ==
    pc = "haptic" =>
        /\ DOMAIN sectors = {"N", "NE", "NW"}
        /\ \A s \in {"N", "NE", "NW"} :
              IF DepthsIn(s) = {} THEN sectors[s].none
              ELSE /\ ~sectors[s].none
                   /\ \E z \in DepthsIn(s) : RatEq(z, sectors[s])
                   /\ \A z \in DepthsIn(s) : ~RatLt(z, sectors[s])

\* C3 witness: two obstacles in NE, the nearer one second and on the 45
\* degree edge; N and NW stay empty.
C3_TwoInOneSector ==
    /\ pc = "haptic"
    /\ Len(obstacles) = 2
    /\ obstacles[1].centroid[1].num = FRAME_WIDTH \div 2 + 141
    /\ obstacles[2].centroid[1].num = FRAME_WIDTH \div 2 + 525
    /\ obstacles[1].centroid[3].num = 2
    /\ obstacles[2].centroid[3].num = 1
    /\ sectors.NE = Some(Rat(1, 1))
    /\ sectors.N.none /\ sectors.NW.none

SectorOfMotor(m) == CHOOSE s \in {"N", "NE", "NW"} : motor_map[s] = m

\* the sectors trigger_haptic_feedback has gone through in this call
Processed == {SectorOrder[i] : i \in 1 .. (hi - 1)}

Commanded(s) == {written[k][2] : k \in {j \in DOMAIN written : written[j][1] = motor_map[s]}}

\* C4: a sector whose closest distance is 0 gets a command of intensity 255.
C4_ZeroDistanceFullIntensity ==
    (pc \in {"haptic", "visualize"} /\ exc = "none") =>
        \A s \in Processed :
            (~sectors[s].none /\ sectors[s].num = 0) => 255 \in Commanded(s)

\* C5 (as claimed): every emitted intensity is
\* clamp(round(255 * (1 - d / warningDistance)), 0, 255).
C5_IntensityRounded ==
    \A s \in {"N", "NE", "NW"} : \A i \in Commanded(s) :
        i = Clamp(RoundNearest(255 * (WARNING_DISTANCE * sectors[s].den - sectors[s].num),
                               WARNING_DISTANCE * sectors[s].den))

\* C5 (amended): every emitted intensity i is 255 * (1 - d / warningDistance)
\* with its fractional part dropped:  i <= 255 * (1 - d/W) < i + 1, within
\* 0 .. 255.
C5_IntensityTruncated ==
    \A s \in {"N", "NE", "NW"} : \A i \in Commanded(s) :
        LET n == 255 * (WARNING_DISTANCE * sectors[s].den - sectors[s].num)
            d == WARNING_DISTANCE * sectors[s].den
        IN  /\ 0 <= i /\ i <= 255
            /\ i * d <= n
            /\ n < (i + 1) * d

\* C5 witness: distance 1.0 commanded as 127 (255 * 0.5 = 127.5).
C5_HalfTruncated ==
    /\ sectors.N = Some(Rat(2, 2))
    /\ 127 \in Commanded("N")

\* C6: for distances d1 <= d2 below the warning distance the commanded
\* intensities are ordered the other way and lie in 0 .. 255; at or beyond
\* the warning distance nothing is commanded.
C6_MonotoneInDistance ==
    (pc = "visualize" /\ exc = "none") =>
        /\ \A s1 \in {"N", "NE", "NW"}, s2 \in {"N", "NE", "NW"} :
              ( /\ ~sectors[s1].none /\ ~sectors[s2].none
                /\ ~RatLt(sectors[s2], sectors[s1])
                /\ BelowWarning(sectors[s2]) )
              => /\ Commanded(s1) # {} /\ Commanded(s2) # {}
                 /\ \A i1 \in Commanded(s1), i2 \in Commanded(s2) :
                       i1 >= i2 /\ i1 \in 0 .. 255 /\ i2 \in 0 .. 255
        /\ \A s \in {"N", "NE", "NW"} :
              (~sectors[s].none /\ ~BelowWarning(sectors[s])) => Commanded(s) = {}

\* C7: a failed capture does not end the frame loop or the process.
C7_CaptureFailureSkipsFrame ==
    exc = "Exception" => pc \in InLoop

\* C8: a failed transport write does not end the frame loop.
C8_TransportErrorNotFatal ==
    exc = "SerialException" => pc \in InLoop

\* C9: a stop signal takes the loop down only between frames: the q key is
\* read after the last stage, and an interrupt leaves the loop only there.
C9_StopOnlyAfterFrame ==
    /\ key = "q" => pc = "exit"
    /\ exc = "KeyboardInterrupt" => pc \in {"capture", "waitkey", "exit"}

\* C10: a command is written only for a sector whose reading in this frame
\* is below the warning distance, at most one per sector and frame; an
\* actuator changes only by such a command and otherwise keeps its last
\* intensity.
C10_WrittenOnlyBelowWarning ==
    /\ [](\A k \in DOMAIN written :
            LET s == SectorOfMotor(written[k][1])
            IN  /\ ~sectors[s].none /\ BelowWarning(sectors[s])
                /\ \A j \in DOMAIN written : written[j][1] = written[k][1] => j = k)
    /\ [][\A m \in 0 .. 2 :
            LET s == SectorOfMotor(m)
            IN  motor'[m] # motor[m] =>
                  /\ ~sectors[s].none /\ BelowWarning(sectors[s])
                  /\ written' = Append(written, <<m, motor'[m]>>)]_vars

\* C10 witness: the frame is through, N reads None, nothing was written for
\* motor 0 and it still holds an earlier frame's intensity.
C10_StaleIntensityKept ==
    /\ pc = "visualize"
    /\ sectors.N.none
    /\ Commanded("N") = {}
    /\ motor[0] = 191

====
